---- MODULE Spec2Model ----
(***************************************************************************)
(* The SearchableSelect widget of webview-ui/src/components/ui/            *)
(* searchable-select.tsx as a state machine: one action per event handler, *)
(* timer callback and effect.  Strings that are searched (labels, the      *)
(* search text) are sequences of one-character strings, so that            *)
(* toLowerCase and includes are computed; option values are only compared  *)
(* for equality and tested for truthiness and stay plain strings.          *)
(* Indices are 0-based as in the source; a sequence s is read at s[i + 1]. *)
(***************************************************************************)
EXTENDS Integers, Sequences, FiniteSets, TLC

\* Longest search text typed into the search input.
MaxSearchLen == 2

\* Characters that can be typed into the search input.
SearchAlphabet == {"A", "m"}

\* `value` prop left out by the caller (value?: string).
Undefined == "<undefined>"

Opt(v, l, d) == [value |-> v, label |-> l, disabled |-> d]

\* An option written without the optional disabled flag.
OptNoFlag(v, l) == [value |-> v, label |-> l]

\* option.disabled read as a condition: an absent flag is undefined, which is falsy.
isDisabled(option) == "disabled" \in DOMAIN option /\ option.disabled

Alpha == <<"A", "l", "p", "h", "a">>
Beta == <<"B", "e", "t", "a">>
Gamma == <<"G", "a", "m", "m", "a">>

\* The option lists the widget is constructed with: the two lists of the
\* behavioural test, a list with nothing enabled, and a list with an option
\* whose identifier is the empty string.
TestOptions == << OptNoFlag("a", Alpha), OptNoFlag("b", Beta), OptNoFlag("c", Gamma) >>
TestOptionsDisabled == << OptNoFlag("a", Alpha), Opt("b", Beta, TRUE), OptNoFlag("c", Gamma) >>
AllDisabledOptions == << Opt("a", Alpha, TRUE), Opt("b", Beta, TRUE) >>
EmptyValueOptions == << Opt("a", Alpha, FALSE), Opt("", Beta, FALSE) >>

OptionLists == {TestOptions, TestOptionsDisabled, AllDisabledOptions, EmptyValueOptions}

\* The values the caller passes as the `value` prop.
Values == {Undefined, "", "a", "b", "c"}

RECURSIVE SeqsUpTo(_)
SeqsUpTo(n) ==
    IF n = 0 THEN {<<>>}
    ELSE LET shorter == SeqsUpTo(n - 1)
         IN  shorter \cup {Append(s, c) : s \in shorter, c \in SearchAlphabet}

SearchTexts == SeqsUpTo(MaxSearchLen)

----------------------------------------------------------------------------
(* JavaScript primitives used by the component *)

\* String.prototype.toLowerCase, one character.
LowerChar(c) ==
    CASE c = "A" -> "a"
      [] c = "B" -> "b"
      [] c = "G" -> "g"
      [] OTHER -> c

toLowerCase(s) == [i \in 1..Len(s) |-> LowerChar(s[i])]

\* String.prototype.includes.
includes(s, sub) ==
    \E i \in 0..(Len(s) - Len(sub)) : SubSeq(s, i + 1, i + Len(sub)) = sub

\* The % operator: the result takes the sign of the dividend.
JsRem(a, n) == IF a >= 0 THEN a % n ELSE -((-a) % n)

\* Array.prototype.findIndex with the predicate (option) => option.value === v.
findIndexByValue(opts, v) ==
    IF \E i \in 1..Len(opts) : opts[i].value = v
    THEN (CHOOSE i \in 1..Len(opts) :
             /\ opts[i].value = v
             /\ \A j \in 1..(i - 1) : opts[j].value # v) - 1
    ELSE -1

\* Truthiness of the optional string prop `value`.
Truthy(v) == v # Undefined /\ v # ""

----------------------------------------------------------------------------
(* Derived state *)

\* Variant: the search text is compared as typed, without lower-casing it.
filteredOptions_caseSensitive(opts, sv) ==
    IF sv = <<>> THEN opts
    ELSE SelectSeq(opts, LAMBDA o : includes(toLowerCase(o.label), sv))

filteredOptions(opts, sv) ==
    IF sv = <<>> THEN opts
    ELSE SelectSeq(opts, LAMBDA o : includes(toLowerCase(o.label), toLowerCase(sv)))

\* Variant: the disabled options are kept in the navigable list.
enabledFilteredOptions_keepsDisabled(filtered) == filtered

\* Variant: only the options whose flag is written as false are kept.
enabledFilteredOptions_dropsAbsent(filtered) ==
    SelectSeq(filtered, LAMBDA o : "disabled" \in DOMAIN o /\ o.disabled = FALSE)

enabledFilteredOptions(filtered) == SelectSeq(filtered, LAMBDA o : ~isDisabled(o))

getDefaultHighlightedIndex(enabled, v) ==
    IF Len(enabled) = 0 THEN -1
    ELSE IF Truthy(v) /\ findIndexByValue(enabled, v) # -1
         THEN findIndexByValue(enabled, v)
         ELSE 0

----------------------------------------------------------------------------
(* State *)

VARIABLES
    options,            \* props.options, fixed for the life of the instance
    value,              \* props.value, owned by the caller
    open,               \* useState(false)
    searchValue,        \* useState("")
    highlightedIndex,   \* useState(-1)
    isMounted,          \* isMountedRef.current, FALSE once the instance is torn down
    timers,             \* the pending 100 ms timeouts, oldest first
    calls,              \* the arguments of the onValueChange calls made by the last event
    last                \* the last event and the state it started from

vars == <<options, value, open, searchValue, highlightedIndex, isMounted, timers, calls, last>>

\* The two timeouts of the component: the one held in searchResetTimeoutRef
\* and the one of the [value] effect.
SearchResetTimer == "searchResetTimeoutRef"
ValueResetTimer == "valueEffectTimeout"

\* setTimeout(f, 100): every timeout has the same delay, so they fire in the
\* order they were set.  `origin` records the event that set the timeout and
\* `superseded` that an open, close or value-change event happened after it
\* was set.
setTimeout(q, k, origin) == Append(q, [kind |-> k, origin |-> origin, superseded |-> FALSE])

clearTimeout(q, k) == SelectSeq(q, LAMBDA t : t.kind # k)

Supersede(q) == [i \in DOMAIN q |-> [q[i] EXCEPT !.superseded = TRUE]]

FilteredNow == filteredOptions(options, searchValue)

EnabledNow == enabledFilteredOptions(FilteredNow)

\* The snapshot kept in `last`.
Event(kind, arg) ==
    [kind |-> kind, arg |-> arg, open |-> open, searchValue |-> searchValue,
     highlightedIndex |-> highlightedIndex, value |-> value,
     pending |-> Len(timers), origin |-> "", superseded |-> FALSE]

\* Variant: the content is rendered whether the popover is open or not.
PopoverContentMounted_always == isMounted

\* The popover renders its content (search input, clear icon, option rows)
\* only while it is open.
PopoverContentMounted == isMounted /\ open

\* Variant: a disabled row reports a selection like any other.
CommandItemSelects_always(option) == TRUE

\* A CommandItem row with disabled set does not report a selection.
CommandItemSelects(option) == ~isDisabled(option)

Init ==
    /\ options \in OptionLists
    /\ value \in Values
    /\ open = FALSE
    /\ searchValue = <<>>
    /\ highlightedIndex = -1
    /\ isMounted = TRUE
    /\ timers = setTimeout(<<>>, ValueResetTimer, "mount")
    /\ calls = <<>>
    /\ last = Event("Mount", -1)

----------------------------------------------------------------------------
(* Handlers *)

handleOpenChange(next) ==
    /\ open' = next
    /\ highlightedIndex' = IF next THEN getDefaultHighlightedIndex(EnabledNow, value) ELSE -1
    /\ timers' = IF next THEN Supersede(timers)
                 ELSE setTimeout(clearTimeout(Supersede(timers), SearchResetTimer),
                                 SearchResetTimer, "close")
    /\ calls' = <<>>
    /\ UNCHANGED <<options, value, searchValue, isMounted>>

\* Variant: the confirmation reports the value and leaves the popover open.
handleSelect_keepsOpen(selectedValue) ==
    /\ calls' = <<selectedValue>>
    /\ timers' = Supersede(timers)
    /\ UNCHANGED <<options, value, open, searchValue, highlightedIndex, isMounted>>

handleSelect(selectedValue) ==
    /\ open' = FALSE
    /\ calls' = <<selectedValue>>
    /\ timers' = Supersede(timers)
    /\ UNCHANGED <<options, value, searchValue, highlightedIndex, isMounted>>

\* Variant: clearing the search also reports an empty selection.
handleClearSearch_reportsEmpty ==
    /\ searchValue' = <<>>
    /\ calls' = <<"">>
    /\ UNCHANGED <<options, value, open, highlightedIndex, isMounted, timers>>

handleClearSearch ==
    /\ searchValue' = <<>>
    /\ calls' = <<>>
    /\ UNCHANGED <<options, value, open, highlightedIndex, isMounted, timers>>

\* Variant: typing stores the text and leaves the highlight where it was.
handleSearchValueChange_keepsHighlight(nextSearchValue) ==
    /\ searchValue' = nextSearchValue
    /\ calls' = <<>>
    /\ UNCHANGED <<options, value, open, highlightedIndex, isMounted, timers>>

handleSearchValueChange(nextSearchValue) ==
    /\ searchValue' = nextSearchValue
    /\ highlightedIndex' = 0
    /\ calls' = <<>>
    /\ UNCHANGED <<options, value, open, isMounted, timers>>

\* Variant: the length is not added before the remainder is taken.
nextIndex_noWrap(index, direction, length) ==
    LET safeIndex == IF index = -1 THEN 0 ELSE index
    IN  JsRem(safeIndex + direction, length)

\* Variant: a key pressed with nothing highlighted lands on index 0.
nextIndex_fromNothing(index, direction, length) ==
    IF index = -1 THEN 0 ELSE JsRem(index + direction + length, length)

nextIndex(index, direction, length) ==
    LET safeIndex == IF index = -1 THEN 0 ELSE index
    IN  JsRem(safeIndex + direction + length, length)

\* Variant: Enter falls back to the first option when nothing is highlighted.
highlightedOption_safeIndex(enabled, index) ==
    LET safeIndex == IF index = -1 THEN 0 ELSE index
    IN  IF safeIndex + 1 \in DOMAIN enabled THEN <<enabled[safeIndex + 1]>> ELSE <<>>

\* The option Enter confirms, as a sequence of at most one option: the Enter
\* branch is taken when highlightedIndex >= 0, and enabledFilteredOptions[i]
\* is undefined when i is past the end.
highlightedOption(enabled, index) ==
    IF index >= 0 /\ index + 1 \in DOMAIN enabled THEN <<enabled[index + 1]>> ELSE <<>>

NoEffect ==
    /\ calls' = <<>>
    /\ UNCHANGED <<options, value, open, searchValue, highlightedIndex, isMounted, timers>>

\* Variant: no early return on an empty list.  The remainder by zero is NaN,
\* which is no index of any list; it is written -2 here.
handleInputKeyDown_noEmptyGuard(key) ==
    IF key \in {"ArrowDown", "ArrowUp"}
    THEN /\ highlightedIndex' =
                IF Len(EnabledNow) = 0 THEN -2
                ELSE nextIndex(highlightedIndex, IF key = "ArrowDown" THEN 1 ELSE -1,
                               Len(EnabledNow))
         /\ calls' = <<>>
         /\ UNCHANGED <<options, value, open, searchValue, isMounted, timers>>
    ELSE IF key = "Enter" /\ highlightedOption(EnabledNow, highlightedIndex) # <<>>
    THEN handleSelect(highlightedOption(EnabledNow, highlightedIndex)[1].value)
    ELSE NoEffect

handleInputKeyDown(key) ==
    IF Len(EnabledNow) = 0 THEN NoEffect
    ELSE IF key \in {"ArrowDown", "ArrowUp"}
    THEN /\ highlightedIndex' =
                nextIndex(highlightedIndex, IF key = "ArrowDown" THEN 1 ELSE -1, Len(EnabledNow))
         /\ calls' = <<>>
         /\ UNCHANGED <<options, value, open, searchValue, isMounted, timers>>
    ELSE IF key = "Enter" /\ highlightedOption(EnabledNow, highlightedIndex) # <<>>
    THEN handleSelect(highlightedOption(EnabledNow, highlightedIndex)[1].value)
    ELSE NoEffect

----------------------------------------------------------------------------
(* Events *)

OpenPopover ==
    /\ isMounted /\ ~open
    /\ handleOpenChange(TRUE)
    /\ last' = Event("Open", -1)

ClosePopover ==
    /\ isMounted /\ open
    /\ handleOpenChange(FALSE)
    /\ last' = Event("Close", -1)

\* useEscapeKey(open, () => setOpen(false))
Escape ==
    /\ isMounted /\ open
    /\ open' = FALSE
    /\ timers' = Supersede(timers)
    /\ calls' = <<>>
    /\ UNCHANGED <<options, value, searchValue, highlightedIndex, isMounted>>
    /\ last' = Event("Escape", -1)

ArrowDown ==
    /\ PopoverContentMounted
    /\ handleInputKeyDown("ArrowDown")
    /\ last' = Event("ArrowDown", -1)

ArrowUp ==
    /\ PopoverContentMounted
    /\ handleInputKeyDown("ArrowUp")
    /\ last' = Event("ArrowUp", -1)

Enter ==
    /\ PopoverContentMounted
    /\ handleInputKeyDown("Enter")
    /\ last' = Event("Enter", -1)

\* The search input reports a changed text.
Type(nextSearchValue) ==
    /\ PopoverContentMounted
    /\ nextSearchValue # searchValue
    /\ handleSearchValueChange(nextSearchValue)
    /\ last' = Event("Type", -1)

\* The clear icon is rendered while searchValue.length > 0.
ClearSearch ==
    /\ PopoverContentMounted
    /\ Len(searchValue) > 0
    /\ handleClearSearch
    /\ last' = Event("Clear", -1)

\* Variant: the hovered row's own index is stored.
hoverIndex_usesRowIndex(i, filtered, enabled, index) ==
    IF ~isDisabled(filtered[i + 1]) THEN i ELSE index

\* The index onMouseEnter of row i leaves highlighted:
\* !option.disabled && setHighlightedIndex(enabledOptionIndex).
hoverIndex(i, filtered, enabled, index) ==
    LET option == filtered[i + 1]
        enabledOptionIndex == findIndexByValue(enabled, option.value)
    IN  IF ~isDisabled(option) THEN enabledOptionIndex ELSE index

\* Click on row i (0-based) of the rendered (filtered) options.
Click(i) ==
    /\ PopoverContentMounted
    /\ i + 1 \in DOMAIN FilteredNow
    /\ IF CommandItemSelects(FilteredNow[i + 1])
       THEN handleSelect(FilteredNow[i + 1].value)
       ELSE NoEffect
    /\ last' = Event("Click", i)

\* onMouseEnter of row i (0-based) of the rendered (filtered) options.
Hover(i) ==
    /\ PopoverContentMounted
    /\ i + 1 \in DOMAIN FilteredNow
    /\ highlightedIndex' = hoverIndex(i, FilteredNow, EnabledNow, highlightedIndex)
    /\ calls' = <<>>
    /\ UNCHANGED <<options, value, open, searchValue, isMounted, timers>>
    /\ last' = Event("Hover", i)

\* The caller renders the widget with another `value`: the [value] effect
\* clears its timeout and sets a new one.
ValueChange(v) ==
    /\ isMounted
    /\ v # value
    /\ value' = v
    /\ timers' = setTimeout(clearTimeout(Supersede(timers), ValueResetTimer),
                          ValueResetTimer, "valueChange")
    /\ calls' = <<>>
    /\ UNCHANGED <<options, open, searchValue, highlightedIndex, isMounted>>
    /\ last' = Event("ValueChange", -1)

\* The timeout set by handleOpenChange(false) fires.
SearchResetFires ==
    /\ Len(timers) > 0
    /\ Head(timers).kind = SearchResetTimer
    /\ timers' = Tail(timers)
    /\ searchValue' = <<>>
    /\ calls' = <<>>
    /\ UNCHANGED <<options, value, open, highlightedIndex, isMounted>>
    /\ last' = [Event("SearchResetFires", -1) EXCEPT !.origin = Head(timers).origin,
                                                     !.superseded = Head(timers).superseded]

\* The timeout set by the [value] effect fires.
ValueResetFires ==
    /\ Len(timers) > 0
    /\ Head(timers).kind = ValueResetTimer
    /\ timers' = Tail(timers)
    /\ searchValue' = IF isMounted THEN <<>> ELSE searchValue
    /\ calls' = <<>>
    /\ UNCHANGED <<options, value, open, highlightedIndex, isMounted>>
    /\ last' = [Event("ValueResetFires", -1) EXCEPT !.origin = Head(timers).origin,
                                                    !.superseded = Head(timers).superseded]

\* Variant: the unmount cleanup leaves the timeout of searchResetTimeoutRef pending.
Unmount_keepsSearchReset ==
    /\ isMounted
    /\ isMounted' = FALSE
    /\ timers' = clearTimeout(timers, ValueResetTimer)
    /\ calls' = <<>>
    /\ UNCHANGED <<options, value, open, searchValue, highlightedIndex>>
    /\ last' = Event("Unmount", -1)

\* Teardown: both effect cleanups run.
Unmount ==
    /\ isMounted
    /\ isMounted' = FALSE
    /\ timers' = clearTimeout(clearTimeout(timers, SearchResetTimer), ValueResetTimer)
    /\ calls' = <<>>
    /\ UNCHANGED <<options, value, open, searchValue, highlightedIndex>>
    /\ last' = Event("Unmount", -1)

Next ==
    \/ OpenPopover
    \/ ClosePopover
    \/ Escape
    \/ ArrowDown
    \/ ArrowUp
    \/ Enter
    \/ \E s \in SearchTexts : Type(s)
    \/ ClearSearch
    \/ \E i \in 0..(Len(options) - 1) : Click(i)
    \/ \E i \in 0..(Len(options) - 1) : Hover(i)
    \/ \E v \in Values : ValueChange(v)
    \/ SearchResetFires
    \/ ValueResetFires
    \/ Unmount

Spec == Init /\ [][Next]_vars

----------------------------------------------------------------------------
(* The vocabulary of the specification, stated without the component's     *)
(* derived lists.                                                          *)

\* The label contains the text as a substring, case-insensitively.
LabelContains(label, text) ==
    \E i \in 0..(Len(label) - Len(text)) :
        \A j \in 1..Len(text) : LowerChar(label[i + j]) = LowerChar(text[j])

\* The option's disabled flag is set; an absent flag counts as not set.
FlagSet(option) == IF "disabled" \in DOMAIN option THEN option.disabled ELSE FALSE

\* Option p (1-based, in the caller's order) is enabled and matches the text.
Navigable(p, text) == ~FlagSet(options[p]) /\ LabelContains(options[p].label, text)

NavigablePositions(text) == {p \in 1..Len(options) : Navigable(p, text)}

\* N = |NavigableOptions| under the text.
NavigableCount(text) == Cardinality(NavigablePositions(text))

\* The position in options of NavigableOptions[k] (k 0-based), 0 when there is none.
NavigablePosition(k, text) ==
    IF \E p \in NavigablePositions(text) :
           Cardinality({q \in NavigablePositions(text) : q < p}) = k
    THEN CHOOSE p \in NavigablePositions(text) :
           Cardinality({q \in NavigablePositions(text) : q < p}) = k
    ELSE 0

\* The next enabled visible option after position p, wrapping to the first.
NextNavigablePosition(p, text) ==
    LET after == {q \in NavigablePositions(text) : q > p}
        pick == IF after # {} THEN after ELSE NavigablePositions(text)
    IN  CHOOSE q \in pick : \A r \in pick : q <= r

----------------------------------------------------------------------------
(* Claims *)

\* C1: pressing Enter while HighlightIndex >= 0 and NavigableOptions is
\* non-empty invokes onValueChange exactly once, with the value of
\* NavigableOptions[HighlightIndex], and leaves OpenState false.
C1_EnterCommitsHighlighted ==
    (/\ last.kind = "Enter"
     /\ last.highlightedIndex >= 0
     /\ NavigableCount(last.searchValue) > 0)
    => /\ NavigablePosition(last.highlightedIndex, last.searchValue) # 0
       /\ calls = <<options[NavigablePosition(last.highlightedIndex, last.searchValue)].value>>
       /\ open = FALSE

\* Enter confirmed a highlighted option other than the first, under a search text.
C1_Witness ==
    /\ last.kind = "Enter"
    /\ last.highlightedIndex >= 1
    /\ last.searchValue # <<>>
    /\ Len(calls) = 1
    /\ ~open

\* C2: an Enter confirmation never reports an option that is disabled or
\* does not match the current SearchText, and ArrowDown from an enabled
\* option moves the highlight to the next enabled visible option, passing
\* over the disabled ones between them.
C2_NavigationSkipsDisabled ==
    /\ (last.kind = "Enter" /\ calls # <<>>)
       => \E p \in NavigablePositions(last.searchValue) : options[p].value = calls[1]
    /\ (/\ last.kind = "ArrowDown"
        /\ last.highlightedIndex >= 0
        /\ last.highlightedIndex < NavigableCount(last.searchValue))
       => NavigablePosition(highlightedIndex, searchValue) =
             NextNavigablePosition(
                 NavigablePosition(last.highlightedIndex, last.searchValue), searchValue)

\* ArrowDown from "a" passed over the disabled "b" and landed on "c".
C2_Witness ==
    /\ last.kind = "ArrowDown"
    /\ options = TestOptionsDisabled
    /\ searchValue = <<>>
    /\ last.highlightedIndex = 0
    /\ options[NavigablePosition(highlightedIndex, searchValue)].value = "c"

\* C3: with N = |NavigableOptions| > 0 and HighlightIndex = i in [0, N-1],
\* ArrowDown sets HighlightIndex to (i+1) mod N and ArrowUp sets it to
\* (i-1+N) mod N, and the result is in [0, N-1].
C3_ArrowsWrap ==
    LET N == NavigableCount(last.searchValue)
        i == last.highlightedIndex
    IN  (N > 0 /\ i >= 0 /\ i <= N - 1)
        => /\ last.kind = "ArrowDown" =>
                 /\ highlightedIndex = (i + 1) % N
                 /\ (i = N - 1 => highlightedIndex = 0)
           /\ last.kind = "ArrowUp" =>
                 /\ highlightedIndex = (i - 1 + N) % N
                 /\ (i = 0 => highlightedIndex = N - 1)
           /\ last.kind \in {"ArrowDown", "ArrowUp"} =>
                 (highlightedIndex >= 0 /\ highlightedIndex <= N - 1)

\* ArrowUp at index 0 of three navigable options wrapped to the last one.
C3_Witness ==
    /\ last.kind = "ArrowUp"
    /\ last.highlightedIndex = 0
    /\ NavigableCount(last.searchValue) = 3
    /\ highlightedIndex = 2

\* C4 (as stated): when HighlightIndex is -1 and N > 0, ArrowDown sets
\* HighlightIndex to 0 and ArrowUp sets HighlightIndex to 0.
C4_ArrowsFromNothingLandOnFirst ==
    (/\ last.kind \in {"ArrowDown", "ArrowUp"}
     /\ last.highlightedIndex = -1
     /\ NavigableCount(last.searchValue) > 0)
    => highlightedIndex = 0

\* C4 (amended): when HighlightIndex is -1 and N > 0, the key moves from
\* index 0: ArrowDown sets HighlightIndex to 1 mod N and ArrowUp sets it to
\* N - 1.
C4_ArrowsFromNothingMoveFromFirst ==
    LET N == NavigableCount(last.searchValue)
    IN  (last.highlightedIndex = -1 /\ N > 0)
        => /\ last.kind = "ArrowDown" => highlightedIndex = 1 % N
           /\ last.kind = "ArrowUp" => highlightedIndex = N - 1

\* ArrowDown with nothing highlighted landed on the second navigable option.
C4_Witness ==
    /\ last.kind = "ArrowDown"
    /\ last.highlightedIndex = -1
    /\ NavigableCount(last.searchValue) >= 2
    /\ highlightedIndex = 1

\* C5: on every transition to open, HighlightIndex is -1 if NavigableOptions
\* is empty; otherwise the index in NavigableOptions of the option whose
\* value equals the caller's SelectedValue, for every SelectedValue string
\* (the empty string included) that matches an entry; otherwise 0.
C5_OpenAppliesThreeTierRule ==
    last.kind = "Open"
    => LET N == NavigableCount(searchValue)
           selected == {k \in 0..(N - 1) :
                           options[NavigablePosition(k, searchValue)].value = value}
       IN  /\ open
           /\ N = 0 => highlightedIndex = -1
           /\ (N > 0 /\ selected # {}) => highlightedIndex \in selected
           /\ (N > 0 /\ selected = {}) => highlightedIndex = 0

\* C6: pressing Enter while HighlightIndex == -1 is a no-op: onValueChange
\* is not invoked and OpenState, SearchText and HighlightIndex are unchanged.
C6_EnterWithNothingHighlightedIsNoOp ==
    (last.kind = "Enter" /\ last.highlightedIndex = -1)
    => /\ calls = <<>>
       /\ open = last.open
       /\ searchValue = last.searchValue
       /\ highlightedIndex = last.highlightedIndex

\* Enter was pressed with nothing highlighted although options were navigable.
C6_Witness ==
    /\ last.kind = "Enter"
    /\ last.highlightedIndex = -1
    /\ NavigableCount(last.searchValue) > 0
    /\ open

\* C7: a click on a disabled option invokes nothing and leaves OpenState
\* alone, so onValueChange is never invoked with the value of a disabled
\* option, by click or by Enter.
C7_DisabledOptionIsInert ==
    /\ (/\ last.kind = "Click"
        /\ \E p \in 1..Len(options) :
              /\ LabelContains(options[p].label, last.searchValue)
              /\ Cardinality({q \in 1..(p - 1) :
                                 LabelContains(options[q].label, last.searchValue)}) = last.arg
              /\ FlagSet(options[p]))
       => (calls = <<>> /\ open = last.open)
    /\ \A i \in 1..Len(calls) :
          \A p \in 1..Len(options) : options[p].value = calls[i] => ~FlagSet(options[p])

\* The disabled row "b" was clicked while the popover was open.
C7_Witness ==
    /\ last.kind = "Click"
    /\ options = TestOptionsDisabled
    /\ last.searchValue = <<>>
    /\ last.arg = 1
    /\ open

C9_HighlightIndexInRange ==
    /\ highlightedIndex >= -1
    /\ highlightedIndex <= NavigableCount(searchValue) - 1

\* C10: a reset scheduled by a close or a value change never fires after a
\* later open, close or value-change event.
C10_SupersededResetNeverFires ==
    (/\ last.kind \in {"SearchResetFires", "ValueResetFires"}
     /\ last.origin \in {"close", "valueChange"})
    => ~last.superseded

\* C11: after teardown no deferred action fires: every pending reset timer,
\* whether set by a close or by a value change, is cancelled at teardown and
\* SearchText is never written afterwards.
C11_NothingFiresAfterTeardown ==
    ~isMounted
    => /\ timers = <<>>
       /\ last.kind = "Unmount"
       /\ searchValue = last.searchValue

\* The instance was torn down with both timeouts pending and a search text typed.
C11_Witness ==
    /\ ~isMounted
    /\ last.kind = "Unmount"
    /\ last.pending = 2
    /\ searchValue # <<>>

\* C12: after the popover closes by any path (dismissal, Escape, a
\* confirmation by Enter or click) or the committed value changes,
\* SearchText eventually becomes empty if nothing supersedes the reset and
\* the widget is not torn down.  Nothing but a pending timeout empties
\* SearchText without a further event, so right after such an event a
\* non-empty SearchText has a reset pending.
C12_CloseLeavesResetPending ==
    (/\ last.kind \in {"Close", "Escape", "Enter", "Click", "ValueChange"}
     /\ (last.kind = "ValueChange" \/ (last.open /\ ~open))
     /\ isMounted
     /\ searchValue # <<>>)
    => timers # <<>>

\* C13: FilteredOptions is exactly the order-preserving subsequence of
\* Options whose lower-cased label contains the lower-cased SearchText, and
\* SearchText = "" gives FilteredOptions equal to Options.
C13_FilterIsMatchingSubsequence ==
    /\ \A text \in SearchTexts \cup {searchValue} :
          LET F == filteredOptions(options, text)
              keep == {p \in 1..Len(options) : LabelContains(options[p].label, text)}
          IN  /\ Len(F) = Cardinality(keep)
              /\ \A p \in keep : F[1 + Cardinality({q \in keep : q < p})] = options[p]
    /\ filteredOptions(options, <<>>) = options

\* An upper-case search text of two characters kept one option out of three.
C13_Witness ==
    /\ last.kind = "Type"
    /\ searchValue = <<"A", "m">>
    /\ Len(options) = 3
    /\ Len(FilteredNow) = 1
    /\ FilteredNow[1].value = "c"

\* C14: NavigableOptions is the order-preserving subsequence of
\* FilteredOptions made of exactly the options whose disabled flag is false
\* (an absent flag counts as false).
C14_NavigableIsEnabledSubsequence ==
    LET F == FilteredNow
        E == EnabledNow
        keep == {p \in 1..Len(F) : ~FlagSet(F[p])}
    IN  /\ Len(E) = Cardinality(keep)
        /\ \A p \in keep : E[1 + Cardinality({q \in keep : q < p})] = F[p]
        /\ \A k \in 1..Len(E) : ~FlagSet(E[k])

\* Under a search text, a disabled option was dropped between two options
\* that carry no flag.
C14_Witness ==
    /\ options = TestOptionsDisabled
    /\ searchValue # <<>>
    /\ Len(FilteredNow) = 3
    /\ Len(EnabledNow) = 2
    /\ EnabledNow[2].value = "c"

\* C15: every transition that closes the widget resets HighlightIndex to
\* -1, so HighlightIndex = -1 in every state with OpenState false.
C15_ClosedMeansNothingHighlighted ==
    ~open => highlightedIndex = -1

\* C16: when NavigableOptions is empty, ArrowDown, ArrowUp and Enter are
\* ignored: HighlightIndex, OpenState and SearchText are unchanged and
\* onValueChange is not invoked, whatever the current HighlightIndex is.
C16_KeysIgnoredWhenNothingNavigable ==
    (/\ last.kind \in {"ArrowDown", "ArrowUp", "Enter"}
     /\ NavigableCount(last.searchValue) = 0)
    => /\ highlightedIndex = last.highlightedIndex
       /\ open = last.open
       /\ searchValue = last.searchValue
       /\ calls = <<>>

\* ArrowDown was pressed with index 0 stored and nothing navigable.
C16_Witness ==
    /\ last.kind = "ArrowDown"
    /\ NavigableCount(last.searchValue) = 0
    /\ last.highlightedIndex = 0

\* The position in options of row i (0-based) of the options rendered under the text.
RowPosition(i, text) ==
    CHOOSE p \in 1..Len(options) :
        /\ LabelContains(options[p].label, text)
        /\ Cardinality({q \in 1..(p - 1) : LabelContains(options[q].label, text)}) = i

\* C17: hover over an enabled visible option sets HighlightIndex to that
\* option's index in NavigableOptions; hover over a disabled option leaves
\* HighlightIndex unchanged; in both cases OpenState and SearchText are
\* unchanged and onValueChange is not invoked.
C17_HoverHighlightsTheOption ==
    last.kind = "Hover"
    => LET p == RowPosition(last.arg, last.searchValue)
       IN  /\ ~FlagSet(options[p]) => NavigablePosition(highlightedIndex, searchValue) = p
           /\ FlagSet(options[p]) => highlightedIndex = last.highlightedIndex
           /\ open = last.open
           /\ searchValue = last.searchValue
           /\ calls = <<>>

\* Hovering "c" below the disabled "b" moved the highlight from "a" to index 1.
C17_Witness ==
    /\ last.kind = "Hover"
    /\ options = TestOptionsDisabled
    /\ last.searchValue = <<>>
    /\ last.arg = 2
    /\ last.highlightedIndex = 0
    /\ highlightedIndex = 1

\* C18: in every state with OpenState true and |NavigableOptions| > 0,
\* HighlightIndex >= 0.
C18_OpenHighlightsSomething ==
    (open /\ NavigableCount(searchValue) > 0) => highlightedIndex >= 0

C20_OnlyConfirmationReports ==
    /\ calls # <<>> => last.kind \in {"Enter", "Click"}
    /\ Len(calls) <= 1
    /\ value # last.value => last.kind = "ValueChange"

\* A click reported a value other than the selected one, and SelectedValue stayed.
C20_Witness ==
    /\ last.kind = "Click"
    /\ Len(calls) = 1
    /\ calls[1] # value
    /\ value = last.value

====
